---- MODULE Spec2Model ----
(***************************************************************************)
(* Model of detector/pipeline.py: the frame-by-frame accident heuristic    *)
(* (analyze_frames, compute_iou) and the three frame-source adapters       *)
(* (process_uploaded_video, process_webcam, process_phone_ip_cam).         *)
(*                                                                         *)
(* Numbers.  Box coordinates are integers.  The floating-point tests of    *)
(* the code are decided exactly, in integer arithmetic, by multiplying     *)
(* both sides with the denominators: the code's epsilon 1e-6 is 1/EpsInv,  *)
(* thresholds are counted in halves (a threshold t stands for t/2), the    *)
(* duration is counted in half seconds, time_seconds in hundredths.        *)
(***************************************************************************)
EXTENDS Integers, Sequences, FiniteSets, TLC

\* ------------------------------------------------------------------ bounds
\* Frames a source can deliver before its reads fail (a finite source).
MaxFrames == 3
\* Detections the detector returns for one frame.
MaxDet == 2

\* ------------------------------------------------------- program constants
\* 1e-6, the epsilon of compute_iou and of the growth ratio, as 1/EpsInv.
EpsInv == 1000000
\* The frame rate process_uploaded_video falls back to.
UploadFallbackFps == 25
\* The frame rate process_webcam and process_phone_ip_cam fall back to.
LiveFallbackFps == 15
\* Above this reported rate the live adapters fall back.
LiveMaxFps == 120
\* The significant binary digits of a Python float.
DoubleBits == 53

VEHICLE_CLASSES == {"car", "motorbike", "bus", "truck"}

CsvHeader == <<"event_id", "frame", "time_seconds", "time_hhmmss", "snapshot_path">>

\* ------------------------------------------------------------------ inputs
\* What the detector can report for a frame: a label and an xyxy box.  The
\* third box lies apart from the first two, the fourth has x2 < x1 and
\* y2 < y1 (a degenerate box), the fifth is not a vehicle.
Detections ==
    { [label |-> "car",    coords |-> <<0, 0, 10, 10>>],
      [label |-> "car",    coords |-> <<0, 0, 13, 13>>],
      [label |-> "truck",  coords |-> <<20, 20, 30, 30>>],
      [label |-> "bus",    coords |-> <<10, 10, 0, 0>>],
      [label |-> "person", coords |-> <<0, 0, 13, 13>>] }

\* The sequences of at most n elements of S, none twice (the detector's
\* non-maximum suppression leaves no two equal boxes of one class).
RECURSIVE SeqsUpTo(_, _)
SeqsUpTo(S, n) ==
    IF n = 0 THEN { <<>> }
    ELSE LET shorter == SeqsUpTo(S, n - 1)
         IN  shorter \cup
             UNION { { Append(s, x) : x \in S \ { s[i] : i \in 1..Len(s) } } :
                     s \in shorter }

\* The detector's results for one frame, in the detector's order.
FrameResults == SeqsUpTo(Detections, MaxDet)

\* What the generator yields: an image or None.  What the detector finds in
\* an image is drawn from FrameResults when the detector is called.
NoneFrame == "None"
ImageFrame == "image"

\* (accident_iou_thres, area_growth_factor) in halves: (0.5, 1.5), (0.0, 1.0).
Thresholds == { [iou |-> 1, growth |-> 3], [iou |-> 0, growth |-> 2] }

\* Frame rates a capture reports through CAP_PROP_FPS.
ReportedFps == {-1, 0, 5, 121}
\* duration_sec in half seconds: 0.5 s is 2 frames at 5 fps, 7 at 15 fps;
\* -0.5 s is a budget of -2 and -7, under which no frame is read.
DurationsHalfSec == {-1, 1}
\* fps and max_frames of a direct call of analyze_frames.  At 40 fps frames
\* 1 and 3 lie halfway between two hundredths of a second.
DirectFps == {40}
NoMax == [set |-> FALSE, n |-> 0]
MaxOf(n) == [set |-> TRUE, n |-> n]
DirectMaxFrames == {NoMax, MaxOf(0), MaxOf(2)}

\* An uploaded file: its name parts and whether it exists and decodes.
VideoFiles ==
    { [given |-> FALSE, stem |-> "",      exists |-> FALSE, opens |-> FALSE,
       state |-> "missing file object"],
      [given |-> TRUE,  stem |-> "gone",  exists |-> FALSE, opens |-> FALSE,
       state |-> "non-existent path"],
      [given |-> TRUE,  stem |-> "notes", exists |-> TRUE,  opens |-> FALSE,
       state |-> "capture not opened"],
      [given |-> TRUE,  stem |-> "crash", exists |-> TRUE,  opens |-> TRUE,
       state |-> "ok"] }

\* The laptop camera at index 0.
Webcams ==
    { [opens |-> FALSE, state |-> "camera unavailable"],
      [opens |-> TRUE,  state |-> "ok"] }

\* A phone stream URL and whether the capture opens on it.
IpUrls ==
    { [url |-> "",                              opens |-> FALSE,
       state |-> "empty url"],
      [url |-> "http://10.0.0.9:8080/video",    opens |-> FALSE,
       state |-> "unreachable url"],
      [url |-> "http://192.168.1.5:8080/video", opens |-> TRUE,
       state |-> "ok"] }

\* ------------------------------------------------------------ pure helpers
Max(a, b) == IF a >= b THEN a ELSE b
Min(a, b) == IF a <= b THEN a ELSE b

\* max(0, x2 - x1) * max(0, y2 - y1)
BoxArea(b) == Max(0, b[3] - b[1]) * Max(0, b[4] - b[2])

\* compute_iou, as the pair <<inter_area, area1 + area2 - inter_area>>: the
\* value of the code is inter / (union + 1/EpsInv).
InterArea(box1, box2) ==
    LET x1 == Max(box1[1], box2[1])
        y1 == Max(box1[2], box2[2])
        x2 == Min(box1[3], box2[3])
        y2 == Min(box1[4], box2[4])
    IN  Max(0, x2 - x1) * Max(0, y2 - y1)

UnionArea(box1, box2) == BoxArea(box1) + BoxArea(box2) - InterArea(box1, box2)

\* compute_iou(box1, box2) >= t/2
IouAtLeast(box1, box2, t) ==
    InterArea(box1, box2) * EpsInv * 2
        >= t * (UnionArea(box1, box2) * EpsInv + 1)

\* cb.area / (pb.area + 1e-6) >= g/2
GrowthAtLeast(cArea, pArea, g) ==
    cArea * EpsInv * 2 >= g * (pArea * EpsInv + 1)

\* The detection filter of analyze_frames: vehicle classes only, order kept.
RECURSIVE VehicleBoxes(_)
VehicleBoxes(results) ==
    IF results = <<>> THEN <<>>
    ELSE LET box == Head(results)
             rest == VehicleBoxes(Tail(results))
         IN  IF box.label \in VEHICLE_CLASSES
             THEN << [coords |-> box.coords,
                      area   |-> BoxArea(box.coords),
                      label  |-> box.label] >> \o rest
             ELSE rest

\* Mutant of PairTriggers: the guard pb["area"] > 0 is forgotten.
PairTriggersNoAreaGuard(cb, pb, thr) ==
    /\ IouAtLeast(cb.coords, pb.coords, thr.iou)
    /\ GrowthAtLeast(cb.area, pb.area, thr.growth)

\* The test of the inner loop for one pair (cb, pb).
PairTriggers(cb, pb, thr) ==
    /\ IouAtLeast(cb.coords, pb.coords, thr.iou)
    /\ pb.area > 0
    /\ GrowthAtLeast(cb.area, pb.area, thr.growth)

\* accident_in_this_frame after the two nested loops.
AccidentInFrame(curr, prev, thr) ==
    \E i \in 1..Len(curr) : \E j \in 1..Len(prev) :
        PairTriggers(curr[i], prev[j], thr)

\* The number of binary digits of n >= 0.
RECURSIVE BitLen(_)
BitLen(n) == IF n = 0 THEN 0 ELSE 1 + BitLen(n \div 2)

\* The long division r / rate in base 2: the remainder left when `bits` more
\* significant digits have been produced (digits count from the first 1).
RECURSIVE RemAfterBits(_, _, _, _)
RemAfterBits(r, rate, bits, started) ==
    IF bits = 0 \/ r = 0 THEN r
    ELSE LET digit == (2 * r) \div rate
             rest  == (2 * r) % rate
         IN  IF started \/ digit = 1
             THEN RemAfterBits(rest, rate, bits - 1, TRUE)
             ELSE RemAfterBits(rest, rate, bits, FALSE)

\* ts = frame_idx / fps is a double: the quotient rounded to DoubleBits
\* significant binary digits.  1 when the double lies above idx / rate, -1
\* when below, 0 when the quotient is a double.
FloatSide(idx, rate) ==
    LET whole == BitLen(idx \div rate)
        rem   == RemAfterBits(idx % rate, rate, DoubleBits - whole, whole > 0)
    IN  IF rem = 0 THEN 0
        ELSE IF 2 * rem > rate THEN 1
        ELSE IF 2 * rem < rate THEN -1
        ELSE IF (2 * RemAfterBits(idx % rate, rate, DoubleBits - whole - 1,
                                  whole > 0)) \div rate = 1
             THEN 1 ELSE -1

\* ts = frame_idx / fps if fps > 0 else frame_idx; round(ts, 2) in hundredths.
\* round rounds the double ts correctly: where idx / rate lies halfway between
\* two hundredths, the side the double fell to decides, and half to even
\* applies only when the double is the quotient itself.
TimeSeconds(idx, rate) ==
    IF rate > 0
    THEN LET q == (100 * idx) \div rate
             r == (100 * idx) % rate
         IN  IF 2 * r > rate THEN q + 1
             ELSE IF 2 * r < rate THEN q
             ELSE IF FloatSide(idx, rate) = 1 THEN q + 1
             ELSE IF FloatSide(idx, rate) = 0 /\ q % 2 = 1 THEN q + 1
             ELSE q
    ELSE 100 * idx

\* str(timedelta(seconds=int(ts))) as <<hours, minutes, seconds>>.
TimeHhmmss(idx, rate) ==
    LET secs == IF rate > 0 THEN idx \div rate ELSE idx
    IN  << secs \div 3600, (secs % 3600) \div 60, secs % 60 >>

\* Mutant of SnapshotPath: the file is named before the counter is advanced.
SnapshotPathStaleCounter(base, counter, idx) ==
    [dir |-> "outputs/frames", base |-> base, accident |-> counter - 1, frame |-> idx]

\* outputs/frames/{base_name}_accident_{counter}_frame_{frame_idx}.jpg
SnapshotPath(base, counter, idx) ==
    [dir |-> "outputs/frames", base |-> base, accident |-> counter, frame |-> idx]

AccidentEvent(base, counter, idx, rate) ==
    [event_id      |-> counter,
     frame         |-> idx,
     time_seconds  |-> TimeSeconds(idx, rate),
     time_hhmmss   |-> TimeHhmmss(idx, rate),
     snapshot_path |-> SnapshotPath(base, counter, idx)]

\* outputs/{base_name}_accident_log.csv
LogCsvPath(base) == [dir |-> "outputs", base |-> base]

\* One row of the DictWriter, in fieldnames order.
CsvRow(e) == << e.event_id, e.frame, e.time_seconds, e.time_hhmmss, e.snapshot_path >>

\* Mutant of CsvContent: the else branch, which writes the header alone, is
\* missing.
CsvContentNoHeaderWhenEmpty(events) ==
    [header |-> IF events = <<>> THEN <<>> ELSE CsvHeader,
     rows   |-> [i \in 1..Len(events) |-> CsvRow(events[i])]]

\* What the CSV block writes for a list of events.
CsvContent(events) ==
    [header |-> CsvHeader,
     rows   |-> [i \in 1..Len(events) |-> CsvRow(events[i])]]

\* fps of process_uploaded_video: cap.get(CAP_PROP_FPS) or 25.0
UploadFps(reported) == IF reported = 0 THEN UploadFallbackFps ELSE reported

\* Mutant of LiveFps: the test fps > 120 is forgotten.
LiveFpsNoUpperLimit(reported) ==
    IF reported <= 0 THEN LiveFallbackFps ELSE reported

\* fps of the live adapters: fall back when fps <= 0 or fps > 120.
LiveFps(reported) ==
    IF reported <= 0 \/ reported > LiveMaxFps THEN LiveFallbackFps ELSE reported

\* max_frames = int(fps * duration_sec), duration in half seconds; int
\* truncates toward zero.
FrameBudget(rate, durHalf) ==
    IF rate * durHalf >= 0
    THEN (rate * durHalf) \div 2
    ELSE -((-(rate * durHalf)) \div 2)

\* ------------------------------------------------------------------- state
VARIABLES
    pc,               \* "idle", "loop" (in the for loop), "csv", "done"
    mode,             \* "none", "direct", "upload", "webcam", "phone"
    source,           \* the state of the frame source the run was given
    reported_fps,     \* what CAP_PROP_FPS reported (adapters)
    cap,              \* the VideoCapture: "none", "open", "released"
    fps,              \* fps handed to analyze_frames
    max_frames,       \* NoMax or MaxOf(n)
    base_name,
    thr,              \* accident_iou_thres and area_growth_factor
    count,            \* count of the live adapters' frame_gen
    pulled,           \* image frames the for loop has taken from its source
    processed,        \* frames that went through the detector
    frame,            \* the item the for loop took last
    curr_boxes,       \* the vehicle boxes of the frame processed last
    prev_boxes,
    accident_events,
    snapshot_paths,
    accident_counter,
    frame_idx,
    image_files,      \* paths cv2.imwrite was called with, in order
    csv_writes,       \* what was written to the log file, one entry per open
    result            \* what the entry point returned or raised

vars == << pc, mode, source, reported_fps, cap, fps, max_frames, base_name, thr, count, pulled,
           processed, frame, curr_boxes, prev_boxes, accident_events,
           snapshot_paths, accident_counter, frame_idx, image_files, csv_writes, result >>

config == << mode, source, reported_fps, fps, max_frames, base_name, thr >>
run == << count, pulled, processed, frame, curr_boxes, prev_boxes, accident_events,
          snapshot_paths, accident_counter, frame_idx, image_files >>

Pending == [kind |-> "pending", snapshots |-> <<>>, csv_log |-> <<>>, error |-> ""]
\* return [], None
ReturnedNothing ==
    [kind |-> "returned", snapshots |-> <<>>, csv_log |-> <<>>, error |-> ""]
Raised(msg) == [kind |-> "raised", snapshots |-> <<>>, csv_log |-> <<>>, error |-> msg]
\* return snapshot_paths, log_csv_path
Returned(paths, log) ==
    [kind |-> "returned", snapshots |-> paths, csv_log |-> << log >>, error |-> ""]

\* Mutant of InitPrevBoxes: the memory starts with a box of an earlier run.
StalePrevBoxes == << [coords |-> <<0, 0, 5, 5>>, area |-> 25, label |-> "car"] >>

\* The locals of analyze_frames before its loop.
InitPrevBoxes == <<>>

Init ==
    /\ pc = "idle"
    /\ mode = "none"
    /\ source = "none"
    /\ reported_fps = 0
    /\ cap = "none"
    /\ fps = 0
    /\ max_frames = NoMax
    /\ base_name = ""
    /\ thr = [iou |-> 0, growth |-> 0]
    /\ count = 0
    /\ pulled = 0
    /\ processed = 0
    /\ frame = "unbound"
    /\ curr_boxes = <<>>
    /\ prev_boxes = InitPrevBoxes
    /\ accident_events = <<>>
    /\ snapshot_paths = <<>>
    /\ accident_counter = 0
    /\ frame_idx = 0
    /\ image_files = <<>>
    /\ csv_writes = <<>>
    /\ result = Pending

\* Entering analyze_frames: its arguments and its locals.
EnterAnalyze(m, base, rate, t, budget) ==
    /\ pc' = "loop"
    /\ mode' = m
    /\ base_name' = base
    /\ fps' = rate
    /\ thr' = t
    /\ max_frames' = budget
    /\ prev_boxes' = InitPrevBoxes
    /\ accident_events' = <<>>
    /\ snapshot_paths' = <<>>
    /\ accident_counter' = 0
    /\ frame_idx' = 0
    /\ UNCHANGED << count, pulled, processed, frame, curr_boxes, image_files,
                    csv_writes, result >>

\* The entry point gives up before analyze_frames is reached.
GiveUp(m, res) ==
    /\ pc' = "done"
    /\ mode' = m
    /\ result' = res
    /\ UNCHANGED << cap, reported_fps, fps, max_frames, base_name, thr, run, csv_writes >>

\* ----------------------------------------------------------- entry points
\* analyze_frames called with a generator of its caller.
CallAnalyzeFrames ==
    /\ pc = "idle"
    /\ \E rate \in DirectFps, t \in Thresholds, budget \in DirectMaxFrames :
          EnterAnalyze("direct", "run", rate, t, budget)
    /\ source' = "ok"
    /\ UNCHANGED << cap, reported_fps >>

\* Mutant of UploadOpens: cap.isOpened() is not asked.
UploadOpensUnchecked(video_file) ==
    video_file.given /\ video_file.exists

\* The three guards of process_uploaded_video let the file through.
UploadOpens(video_file) ==
    video_file.given /\ video_file.exists /\ video_file.opens

ProcessUploadedVideo ==
    /\ pc = "idle"
    /\ \E video_file \in VideoFiles, reported \in ReportedFps, t \in Thresholds :
          /\ source' = video_file.state
          /\ IF ~UploadOpens(video_file)
             THEN GiveUp("upload", ReturnedNothing)
             ELSE /\ cap' = "open"
                  /\ reported_fps' = reported
                  /\ EnterAnalyze("upload", video_file.stem, UploadFps(reported),
                                  t, NoMax)

\* cap.isOpened() of process_webcam.
WebcamOpens(webcam) == webcam.opens

ProcessWebcam ==
    /\ pc = "idle"
    /\ \E webcam \in Webcams, reported \in ReportedFps,
          duration \in DurationsHalfSec, t \in Thresholds :
          /\ source' = webcam.state
          /\ IF ~WebcamOpens(webcam)
             THEN GiveUp("webcam", Raised("Could not open laptop webcam (index 0)."))
             ELSE /\ cap' = "open"
                  /\ reported_fps' = reported
                  /\ EnterAnalyze("webcam", "laptop_webcam", LiveFps(reported), t,
                                  MaxOf(FrameBudget(LiveFps(reported), duration)))

ProcessPhoneIpCam ==
    /\ pc = "idle"
    /\ \E ip \in IpUrls, reported \in ReportedFps,
          duration \in DurationsHalfSec, t \in Thresholds :
          /\ source' = ip.state
          /\ IF ip.url = ""
             THEN GiveUp("phone", ReturnedNothing)
             ELSE IF ~ip.opens
             THEN GiveUp("phone", Raised("Could not open IP camera stream"))
             ELSE /\ cap' = "open"
                  /\ reported_fps' = reported
                  /\ EnterAnalyze("phone", "phone_ip_cam", LiveFps(reported), t,
                                  MaxOf(FrameBudget(LiveFps(reported), duration)))

\* ------------------------------------------------------- the frame sources
Live == mode \in {"webcam", "phone"}

\* The live frame_gen leaves its while loop without reading.
GenBudgetSpent == Live /\ count >= max_frames.n

\* The generator may yield an image: the source still has one.
CanYield == ~GenBudgetSpent /\ pulled < MaxFrames

\* --------------------------------------------------------- analyze_frames
\* The for loop ends: the generator is exhausted (a failed read, or the live
\* generator's own count).
SourceExhausted ==
    /\ pc = "loop"
    /\ pc' = "csv"
    /\ UNCHANGED << cap, config, run, csv_writes, result >>

\* The generator yields None: break.
NoneFrameBreak ==
    /\ pc = "loop"
    /\ mode = "direct"
    /\ frame' = NoneFrame
    /\ pc' = "csv"
    /\ UNCHANGED << cap, config, count, pulled, processed, curr_boxes,
                    prev_boxes, accident_events, snapshot_paths, accident_counter,
                    frame_idx, image_files, csv_writes, result >>

\* frame_idx > max_frames after the increment.
OverBudget(idx) == max_frames.set /\ idx > max_frames.n

\* A frame is pulled, counted, and found beyond max_frames: break.
MaxFramesBreak ==
    /\ pc = "loop"
    /\ CanYield
    /\ OverBudget(frame_idx + 1)
    /\ frame' = ImageFrame
    /\ pulled' = pulled + 1
    /\ count' = IF Live THEN count + 1 ELSE count
    /\ frame_idx' = frame_idx + 1
    /\ pc' = "csv"
    /\ UNCHANGED << cap, config, processed, curr_boxes, prev_boxes, accident_events,
                    snapshot_paths, accident_counter, image_files,
                    csv_writes, result >>

\* Mutant of NextPrevBoxes: an event frame leaves the memory as it was.
NextPrevBoxesKeptOnEvent(curr, prev, flagged) == IF flagged THEN prev ELSE curr

\* Mutant of NextCounter: the counter advances on every frame.
NextCounterEveryFrame(counter, flagged) == counter + 1

\* prev_boxes = curr_boxes at the end of the loop body.
NextPrevBoxes(curr, prev, flagged) == curr

\* accident_counter after the frame.
NextCounter(counter, flagged) == IF flagged THEN counter + 1 ELSE counter

\* One pass through the loop body: detect, filter, decide, record.
ProcessFrame ==
    /\ pc = "loop"
    /\ CanYield
    /\ ~OverBudget(frame_idx + 1)
    /\ pc' = "loop"
    /\ frame' = ImageFrame
    /\ frame_idx' = frame_idx + 1
    /\ pulled' = pulled + 1
    /\ count' = IF Live THEN count + 1 ELSE count
    /\ processed' = processed + 1
    /\ \E results \in FrameResults :
       \E curr \in { VehicleBoxes(results) } :
          /\ curr_boxes' = curr
          /\ \E flagged \in { AccidentInFrame(curr, prev_boxes, thr) } :
             \E counter \in { NextCounter(accident_counter, flagged) } :
                LET idx  == frame_idx + 1
                    path == SnapshotPath(base_name, counter, idx)
                IN  /\ accident_counter' = counter
                    /\ IF flagged
                       THEN /\ image_files' = Append(image_files, path)
                            /\ snapshot_paths' = Append(snapshot_paths, path)
                            /\ accident_events' =
                                  Append(accident_events,
                                         AccidentEvent(base_name, counter, idx, fps))
                       ELSE UNCHANGED << image_files, snapshot_paths,
                                         accident_events >>
                    /\ prev_boxes' = NextPrevBoxes(curr, prev_boxes, flagged)
    /\ UNCHANGED << cap, config, csv_writes, result >>

\* The CSV block and the return; the adapter then releases its capture.
WriteCsv ==
    /\ pc = "csv"
    /\ csv_writes' = Append(csv_writes,
                            [path |-> LogCsvPath(base_name),
                             content |-> CsvContent(accident_events)])
    /\ result' = Returned(snapshot_paths, LogCsvPath(base_name))
    /\ cap' = IF mode = "direct" THEN cap ELSE "released"
    /\ pc' = "done"
    /\ UNCHANGED << config, run >>

Next ==
    \/ CallAnalyzeFrames
    \/ ProcessUploadedVideo
    \/ ProcessWebcam
    \/ ProcessPhoneIpCam
    \/ SourceExhausted
    \/ NoneFrameBreak
    \/ MaxFramesBreak
    \/ ProcessFrame
    \/ WriteCsv

Spec == Init /\ [][Next]_vars

\* The loop is a plain sequential program: it always takes its next step.
FairSpec == Spec /\ WF_vars(Next)

\* ================================================================== claims
Analyzing == source = "ok" /\ pc # "idle"
Adapter == mode \in {"upload", "webcam", "phone"}
FrameProcessed == processed' = processed + 1

\* ---------------------------------------------------------------------- C1
\* The pair (c, p) is a trigger pair under the thresholds of the run.
C1_TriggerPair(c, p) ==
    /\ IouAtLeast(c.coords, p.coords, thr.iou)
    /\ p.area > 0
    /\ GrowthAtLeast(c.area, p.area, thr.growth)

C1_HasTriggerPair(C, P) ==
    \E i \in 1..Len(C) : \E j \in 1..Len(P) : C1_TriggerPair(C[i], P[j])

\* C1: a processed frame with current vehicle boxes C and remembered boxes P
\* appends exactly one event (event_id = counter + 1, frame = frame_idx) when
\* some pair (c in C, p in P) is a trigger pair, and appends nothing and
\* leaves the counter alone when no pair is.
C1_EventIffTriggerPair ==
    [][ FrameProcessed =>
          LET C == curr_boxes'
              P == prev_boxes
              n == Len(accident_events)
          IN  IF C1_HasTriggerPair(C, P)
              THEN /\ Len(accident_events') = n + 1
                   /\ SubSeq(accident_events', 1, n) = accident_events
                   /\ accident_events'[n + 1].event_id = accident_counter + 1
                   /\ accident_events'[n + 1].frame = frame_idx'
                   /\ accident_counter' = accident_counter + 1
              ELSE /\ accident_events' = accident_events
                   /\ accident_counter' = accident_counter ]_vars

\* The example of the claim: [0,0,10,10] then [0,0,13,13] under 0.5 / 1.5 has
\* given event 1 on frame 2 (under these thresholds no other box of the
\* model triggers against a [0,0,13,13] car on frame 2).
C1_Witness ==
    /\ pc = "loop"
    /\ thr = [iou |-> 1, growth |-> 3]
    /\ frame_idx = 2
    /\ curr_boxes = << [coords |-> <<0, 0, 13, 13>>, area |-> 169, label |-> "car"] >>
    /\ Len(accident_events) = 1
    /\ accident_events[1].event_id = 1
    /\ accident_events[1].frame = 2

\* ---------------------------------------------------------------------- C2
\* C2: with max_frames = N no frame beyond the Nth is pulled from the source
\* or processed.
C2_NothingBeyondBudget ==
    (Analyzing /\ max_frames.set) =>
        /\ pulled <= Max(0, max_frames.n)
        /\ processed <= Max(0, max_frames.n)

\* ---------------------------------------------------------------------- C3
\* C3: the number of collected events equals the event counter, and the i-th
\* collected event has event_id = i.
C3_EventIdsAreOneToK ==
    /\ Len(accident_events) = accident_counter
    /\ \A i \in 1..Len(accident_events) : accident_events[i].event_id = i

\* Two events, on frames that are not their ids.
C3_Witness ==
    /\ accident_counter = 2
    /\ Len(accident_events) = 2
    /\ accident_events[1].frame = 2
    /\ accident_events[2].frame = 3

\* ---------------------------------------------------------------------- C4
FailedSources ==
    {"missing file object", "non-existent path", "capture not opened",
     "camera unavailable", "empty url", "unreachable url"}

NothingProcessedOrWritten ==
    /\ pc = "done"
    /\ pulled = 0
    /\ processed = 0
    /\ image_files = <<>>
    /\ csv_writes = <<>>
    /\ result.csv_log = <<>>

\* C4 as stated: a source that cannot be opened makes the entry point fail
\* with a descriptive error, before any frame is processed and without a log.
C4_FailsWithError ==
    source \in FailedSources =>
        /\ NothingProcessedOrWritten
        /\ result.kind = "raised"
        /\ result.error # ""

\* C4 as amended: a source that cannot be opened ends the entry point before
\* any frame is pulled or processed and without a log or snapshot; an
\* unavailable webcam and an unreachable URL raise an error with a message,
\* while a missing file object, a non-existent path, a capture that did not
\* open on the file and an empty URL return ([], None) without an error.
C4_StopsBeforeProcessing ==
    source \in FailedSources =>
        /\ NothingProcessedOrWritten
        /\ IF source \in {"camera unavailable", "unreachable url"}
           THEN result.kind = "raised" /\ result.error # ""
           ELSE result = [kind |-> "returned", snapshots |-> <<>>,
                          csv_log |-> <<>>, error |-> ""]

\* The upload of a file that exists but does not decode has returned.
C4_Witness ==
    /\ mode = "upload"
    /\ source = "capture not opened"
    /\ pc = "done"
    /\ result.kind = "returned"

\* ---------------------------------------------------------------------- C5
\* C5: after every processed frame, flagged or not, prev_boxes is exactly the
\* list of vehicle boxes of that frame (vehicle classes only, in the
\* detector's order); no other step of the loop changes it.
C5_MemoryIsLastFrame ==
    [][ /\ FrameProcessed =>
              /\ prev_boxes' = curr_boxes'
              /\ \A i \in 1..Len(prev_boxes') :
                    prev_boxes'[i].label \in {"car", "motorbike", "bus", "truck"}
        /\ (pc = "loop" /\ ~FrameProcessed) => prev_boxes' = prev_boxes ]_vars

\* An event frame has been processed and the memory holds its boxes, which
\* differ from the boxes of the frame before.
C5_Witness ==
    /\ pc = "loop"
    /\ thr = [iou |-> 1, growth |-> 3]
    /\ Len(accident_events) = 1
    /\ accident_events[1].frame = frame_idx
    /\ prev_boxes = curr_boxes
    /\ Len(prev_boxes) = 2

\* ---------------------------------------------------------------------- C6
\* C6: a processed frame whose vehicle boxes are empty, or whose remembered
\* boxes are empty, adds no event and still replaces the memory; no event is
\* ever recorded on frame 1.
C6_EmptySideNeverTriggers ==
    /\ [][ (FrameProcessed
              /\ (curr_boxes' = <<>> \/ prev_boxes = <<>>)) =>
             /\ accident_events' = accident_events
             /\ accident_counter' = accident_counter
             /\ image_files' = image_files
             /\ prev_boxes' = curr_boxes' ]_vars
    /\ [](\A i \in 1..Len(accident_events) : accident_events[i].frame # 1)

\* Frame 1 held vehicles, under the thresholds that are easiest to meet, and
\* left no event.
C6_Witness ==
    /\ pc = "loop"
    /\ thr = [iou |-> 0, growth |-> 2]
    /\ frame_idx = 1
    /\ processed = 1
    /\ Len(prev_boxes) = 2
    /\ accident_events = <<>>

\* ---------------------------------------------------------------------- C7
C7_LogOf(events) ==
    [header |-> <<"event_id", "frame", "time_seconds", "time_hhmmss",
                  "snapshot_path">>,
     rows   |-> [i \in 1..Len(events) |->
                   << events[i].event_id, events[i].frame,
                      events[i].time_seconds, events[i].time_hhmmss,
                      events[i].snapshot_path >>]]

\* C7: a run of analyze_frames ends, and when it has ended the log was
\* written exactly once (not before the loop ended): the header, then one
\* row per collected event in detection order; a run without events has
\* written the header alone and no snapshot.
C7_LogWrittenOnce ==
    /\ [](pc = "loop" => <>(pc = "done"))
    /\ [](pc \in {"loop", "csv"} => csv_writes = <<>>)
    /\ []((pc = "done" /\ source = "ok") =>
            /\ Len(csv_writes) = 1
            /\ csv_writes[1].path = [dir |-> "outputs", base |-> base_name]
            /\ csv_writes[1].content = C7_LogOf(accident_events)
            /\ accident_events = <<>> =>
                  /\ csv_writes[1].content.rows = <<>>
                  /\ image_files = <<>>)

\* A run that met no event has ended after a None frame, with frames
\* processed before it.
C7_Witness ==
    /\ pc = "done"
    /\ source = "ok"
    /\ frame = NoneFrame
    /\ processed >= 2
    /\ accident_events = <<>>
    /\ Len(csv_writes) = 1
    /\ csv_writes[1].content.rows = <<>>

\* ---------------------------------------------------------------------- C8
\* C8 as stated: every adapter hands analyze_frames an fps in (0, 120].
C8_FpsInRange ==
    (Analyzing /\ Adapter) => (fps > 0 /\ fps <= 120)

\* C8 as amended: process_webcam and process_phone_ip_cam hand on 15 when
\* the reported rate is non-positive or above 120 and the reported rate
\* otherwise, so their fps is in (0, 120]; process_uploaded_video hands on 25
\* when the reported rate is 0 and the reported rate otherwise, also when
\* that is negative or above 120.
C8_FpsFallback ==
    (Analyzing /\ Adapter) =>
        IF mode = "upload"
        THEN fps = (IF reported_fps = 0 THEN 25 ELSE reported_fps)
        ELSE /\ fps = (IF reported_fps <= 0 \/ reported_fps > 120
                       THEN 15 ELSE reported_fps)
             /\ fps > 0
             /\ fps <= 120

\* A webcam that reports 121 frames per second is read at 15.
C8_Witness ==
    /\ mode = "webcam"
    /\ reported_fps = 121
    /\ fps = 15
    /\ processed >= 1

\* ---------------------------------------------------------------------- C9
\* C9: frame_idx equals the number of frames pulled from the source, not
\* counting a frame beyond max_frames; the events are in strictly increasing
\* frame order, each on a frame between 2 and the number of frames processed
\* (and never beyond max_frames).
C9_FrameIndexCountsFrames ==
    Analyzing =>
        /\ frame_idx = (IF max_frames.set
                        THEN Min(pulled, Max(0, max_frames.n))
                        ELSE pulled)
        /\ \A i \in 1..Len(accident_events) :
              /\ accident_events[i].frame >= 2
              /\ accident_events[i].frame <= processed
              /\ max_frames.set => accident_events[i].frame <= max_frames.n
              /\ i > 1 => accident_events[i - 1].frame < accident_events[i].frame

\* --------------------------------------------------------------------- C10
\* C10: the image files written are, in order, the snapshot_path values of
\* the collected events and the returned snapshot_paths; there is one per
\* event, it is named after the run's base name, the event's id and the
\* event's frame, and no two are equal.
C10_SnapshotPerEvent ==
    /\ image_files = snapshot_paths
    /\ Len(image_files) = Len(accident_events)
    /\ Len(image_files) = accident_counter
    /\ \A i \in 1..Len(accident_events) :
          /\ image_files[i] = accident_events[i].snapshot_path
          /\ image_files[i] = [dir      |-> "outputs/frames",
                               base     |-> base_name,
                               accident |-> accident_events[i].event_id,
                               frame    |-> accident_events[i].frame]
    /\ \A i, j \in 1..Len(image_files) : i # j => image_files[i] # image_files[j]
    /\ (pc = "done" /\ source = "ok") => result.snapshots = image_files

\* A run has returned two snapshots.
C10_Witness ==
    /\ pc = "done"
    /\ Len(result.snapshots) = 2
    /\ Len(image_files) = 2
    /\ processed = 3

====
